---- MODULE Spec2Model ----
(***************************************************************************)
(* Final_Anomaly_Detection_Project.ipynb: a five-cell notebook that loads  *)
(* the KDD Cup 1999 table, label-encodes and standardises it, scores it    *)
(* with an Isolation Forest and with an autoencoder, and reports both      *)
(* against the ground truth of column 41.                                  *)
(*                                                                         *)
(* Arithmetic is exact: a standardised value (x - mean)/std is kept as the *)
(* pair num/sqrt(den2), and mean + 3*std as the triple                     *)
(* (sum + 3*sqrt(sqdev/n))/n, so that every comparison is decided on       *)
(* integers.  NaN is the value NaN below and compares FALSE with           *)
(* everything, as IEEE comparison does.                                    *)
(***************************************************************************)
EXTENDS Integers, Sequences, FiniteSets, TLC

VARIABLES
    pc,              \* the cell that runs next, or "done" / "aborted"
    file,            \* what kddcup.data_10_percent.gz holds on disk
    df,              \* cell b290fad1: the loaded table
    df_encoded,      \* cell 35517c09: the encoded copy, later given three columns
    X_scaled,        \* cell 35517c09: the standardised feature matrix
    input_dim,       \* cell cc247587: X_scaled.shape[1]
    fit_input,       \* cell cc247587: the matrix handed to autoencoder.fit
    mse,             \* cell cc247587: per-row reconstruction error
    threshold,       \* cell cc247587: mean + 3*std of mse
    report,          \* cell bb04271d: the two classification reports
    y_pred,          \* cell bb04271d: the predictions handed to classification_report
    output,          \* what the notebook has displayed so far
    error,           \* the exception that stopped the run, or NoError
    entropy,         \* state of the process's unseeded global generator, 0 at start
    iforest_runs     \* the labels of every execution of cell 0dc31f83

vars == <<pc, file, df, df_encoded, X_scaled, input_dim, fit_input,
          mse, threshold, report, y_pred, output, error, entropy, iforest_runs>>

(***************************************************************************)
(* Bounds of the model.                                                    *)
(***************************************************************************)
MaxHead == 2        \* rows of a table that are drawn freely
MaxPad == 9         \* further copies of the last free row
MaxErr == 2         \* a reconstruction error is 0..MaxErr
MaxReruns == 1      \* re-executions of the Isolation-Forest cell
TreeCount == 2      \* trees of the forest
ScorerRows == 11    \* longest error array of the scorer-only specification
ScorerErr == 2      \* largest error of the scorer-only specification

(***************************************************************************)
(* Constants of the notebook.                                              *)
(***************************************************************************)
LabelCol == "41"
NormalSentinel == "normal."
ContaminationPct == 5
RandomState == 42
TwoSigma == 1 + 1
StdMultiplier == 3

NoError == "none"
Unset == <<>>
NaN == -1

(***************************************************************************)
(* Generic helpers.                                                        *)
(***************************************************************************)
Range(s) == {s[i] : i \in DOMAIN s}

RECURSIVE SumTo(_, _)
SumTo(s, k) == IF k = 0 THEN 0 ELSE s[k] + SumTo(s, k - 1)

SumSeq(s) == SumTo(s, Len(s))

\* the sequence s[1..k], element by element
RECURSIVE Prefix(_, _)
Prefix(s, k) == IF k = 0 THEN <<>> ELSE Append(Prefix(s, k - 1), s[k])

\* the k-th smallest element of a sequence of integers, k = 0 for the least
KthSmallest(s, k) ==
    CHOOSE v \in Range(s) :
        /\ Cardinality({i \in DOMAIN s : s[i] < v}) <= k
        /\ Cardinality({i \in DOMAIN s : s[i] <= v}) > k

(***************************************************************************)
(* The dataset.  A column is a dtype and its values; a table maps column   *)
(* labels to columns.  The file has two feature columns, "0" (numeric) and *)
(* "1" (categorical), and the label column "41".                           *)
(***************************************************************************)
FileCols == <<"0", "1", "41">>

Records ==
    { <<0, "tcp", "normal.">>,
      <<1, "tcp", "normal.">>,
      <<0, "udp", "smurf.">>,
      <<0, "tcp", "Normal.">> }

\* code-point order of the strings of the dataset, as Python sorts them
StrOrder == <<"Normal.", "normal.", "smurf.", "tcp", "udp">>
StrRank(s) == CHOOSE k \in DOMAIN StrOrder : StrOrder[k] = s

DTypeOf(pos) == IF pos = 1 THEN "int64" ELSE "object"

Column(rows, pos) ==
    [dtype |-> DTypeOf(pos), values |-> [i \in DOMAIN rows |-> rows[i][pos]]]

\* pandas.read_csv(header=None) on a file of these records, first `width` columns
TableOf(rows, width) ==
    [c \in {FileCols[p] : p \in 1..width} |->
        Column(rows, CHOOSE p \in 1..width : FileCols[p] = c)]

Padded(head, pad) == head \o [i \in 1..pad |-> head[Len(head)]]

Heads == UNION {[1..n -> Records] : n \in 1..MaxHead}

\* the file on disk: unreadable, a full 42-column-style table, or a table that
\* lacks the label column
Files ==
    {[readable |-> TRUE, table |-> TableOf(Padded(h, p), 3)] :
        h \in Heads, p \in 0..MaxPad}
    \cup {[readable |-> TRUE, table |-> TableOf(h, 2)] : h \in [1..1 -> Records]}
    \cup {[readable |-> FALSE, table |-> Unset]}

NRows(t) == Len(t[CHOOSE c \in DOMAIN t : TRUE].values)

(***************************************************************************)
(* Cell 35517c09: LabelEncoder and StandardScaler.                         *)
(***************************************************************************)
\* LabelEncoder.fit_transform: the rank of a value among the sorted distinct
\* values of its column
LabelEncode(col) ==
    [dtype |-> "int64",
     values |-> [i \in DOMAIN col.values |->
        Cardinality({StrRank(w) : w \in {v \in Range(col.values) :
                                     StrRank(v) < StrRank(col.values[i])}})]]

\* df.copy() followed by the loop over select_dtypes(include=['object'])
EncodeObjectColumns(t) ==
    [c \in DOMAIN t |-> IF t[c].dtype = "object" THEN LabelEncode(t[c]) ELSE t[c]]

\* a drop that removes nothing
DropNothing(t, cs) == t

DropColumns(t, cs) == [c \in DOMAIN t \ cs |-> t[c]]

\* column labels in positional order
AddedCols == <<"anomaly_iforest", "anomaly_autoencoder", "true_label">>
ColumnOrder(t) == SelectSeq(FileCols \o AddedCols, LAMBDA c : c \in DOMAIN t)

\* n^2 times the population variance
VarNum(vals) == Len(vals) * SumSeq([i \in DOMAIN vals |-> vals[i] * vals[i]])
                - SumSeq(vals) * SumSeq(vals)

\* a scale that stays zero for a constant column
ScaleUnguarded(var, n) == var

\* StandardScaler's scale_, squared and times n^2: the variance, where a zero
\* standard deviation is replaced by 1
Scale(var, n) == IF var = 0 THEN n * n ELSE var

\* (x - mean_) / scale_ for every value of a column, each kept as num / sqrt(den2)
ScaleColumn(vals) ==
    LET s == SumSeq(vals)
        d2 == Scale(VarNum(vals), Len(vals))
    IN  Prefix([i \in DOMAIN vals |-> [num |-> Len(vals) * vals[i] - s, den2 |-> d2]],
               Len(vals))

\* StandardScaler().fit_transform(t): a row-major matrix
FitTransform(t) ==
    LET order == ColumnOrder(t)
        cols == Prefix([j \in DOMAIN order |-> ScaleColumn(t[order[j]].values)],
                       Len(order))
    IN  [i \in 1..NRows(t) |-> [j \in DOMAIN order |-> cols[j][i]]]

Shape1(X) == Len(X[1])

(***************************************************************************)
(* Cell 0dc31f83: IsolationForest(contamination=0.05, random_state=42).    *)
(* The forest is scikit-learn's; it is modelled as TreeCount random        *)
(* one-split trees drawn from a generator seeded by random_state, scored   *)
(* by path length and cut at the contamination percentile.                 *)
(***************************************************************************)
RngMod == 16
SeedState(seed) == seed % RngMod
NextState(s) == (5 * s + 3) % RngMod

RECURSIVE StateAt(_, _)
StateAt(s, k) == IF k = 0 THEN s ELSE StateAt(NextState(s), k - 1)

KthOfSet(S, k) == CHOOSE v \in S : Cardinality({w \in S : w < v}) = k

\* path length of every row in the tree drawn from generator state s: 1 when
\* the split isolates the row, 2 when it does not (or the feature is constant)
TreePathLengths(X, s) ==
    LET f == ((s \div 4) % Shape1(X)) + 1
        vals == Prefix([j \in DOMAIN X |-> X[j][f].num], Len(X))
        D == Range(vals)
        cut == IF Cardinality(D) = 1 THEN 0
               ELSE KthOfSet(D, (s % 4) % (Cardinality(D) - 1))
    IN  Prefix([i \in DOMAIN X |->
                   IF Cardinality(D) = 1 THEN 2
                   ELSE IF Cardinality({j \in DOMAIN X :
                               (vals[j] <= cut) = (vals[i] <= cut)}) = 1
                        THEN 1 ELSE 2],
               Len(X))

ScoreSamples(X, s0) ==
    LET trees == Prefix([t \in 1..TreeCount |-> TreePathLengths(X, StateAt(s0, t))],
                        TreeCount)
    IN  Prefix([i \in DOMAIN X |-> SumSeq([t \in 1..TreeCount |-> trees[t][i]])],
               Len(X))

\* 100 * numpy.percentile(scores, 100 * contamination), linear interpolation
Offset100(scores) ==
    LET pos == ContaminationPct * (Len(scores) - 1)
        lo == pos \div 100
        r == pos % 100
        a == KthSmallest(scores, lo)
        b == IF lo + 1 < Len(scores) THEN KthSmallest(scores, lo + 1) ELSE a
    IN  100 * a + r * (b - a)

\* random_state=None: the forest draws from the process's global generator
UnseededForestSeed == SeedState(entropy)

\* the generator the forest draws from: random_state=42
ForestSeed == SeedState(RandomState)

\* fit_predict: -1 where decision_function < 0, +1 elsewhere
FitPredict(X) ==
    LET scores == ScoreSamples(X, ForestSeed)
        offset == Offset100(scores)
    IN  [i \in DOMAIN X |-> IF 100 * scores[i] < offset THEN -1 ELSE 1]

(***************************************************************************)
(* Cell cc247587: reconstruction errors, threshold and labels.             *)
(***************************************************************************)
HasNaN(errs) == \E i \in DOMAIN errs : errs[i] = NaN

\* np.mean(errs) as the fraction num/den
Mean(errs) ==
    IF HasNaN(errs) THEN [nan |-> TRUE, num |-> 0, den |-> 1]
    ELSE [nan |-> FALSE, num |-> SumSeq(errs), den |-> Len(errs)]

\* np.std(errs) = sqrt(mean(abs(errs - mean)^2)) as sqrt(rad_num/rad_den), the
\* deviation of errs[i] from the mean being (n * errs[i] - sum) / n
Std(errs) ==
    IF HasNaN(errs) THEN [nan |-> TRUE, rad_num |-> 0, rad_den |-> 1]
    ELSE LET s == SumSeq(errs)
             n == Len(errs)
         IN  [nan |-> FALSE,
              rad_num |-> SumSeq([i \in DOMAIN errs |->
                              (n * errs[i] - s) * (n * errs[i] - s)]),
              rad_den |-> n * n * n]

\* threshold = np.mean(mse) + 3 * np.std(mse)
Threshold(errs) ==
    LET m == Mean(errs)
        sd == Std(errs)
    IN  [nan |-> m.nan \/ sd.nan,
         mean_num |-> m.num, mean_den |-> m.den,
         k |-> StdMultiplier,
         rad_num |-> sd.rad_num, rad_den |-> sd.rad_den]

\* e >= t
GreaterOrEqual(e, t) ==
    /\ e # NaN
    /\ ~t.nan
    /\ e * t.mean_den - t.mean_num >= 0
    /\ (e * t.mean_den - t.mean_num) * (e * t.mean_den - t.mean_num) * t.rad_den
           >= t.k * t.k * t.rad_num * t.mean_den * t.mean_den

\* e > t for an error e and a threshold t = mean + k * sqrt(rad)
Greater(e, t) ==
    /\ e # NaN
    /\ ~t.nan
    /\ e * t.mean_den - t.mean_num > 0
    /\ (e * t.mean_den - t.mean_num) * (e * t.mean_den - t.mean_num) * t.rad_den
           > t.k * t.k * t.rad_num * t.mean_den * t.mean_den

\* (mse > threshold).astype(int)
AnomalyAutoencoder(errs, t) ==
    [i \in DOMAIN errs |-> IF Greater(errs[i], t) THEN 1 ELSE 0]

(***************************************************************************)
(* Cell bb04271d: ground truth and classification_report.                  *)
(***************************************************************************)
\* the comparison made on the encoded copy: an int64 code never equals a string
TrueLabelOfEncoded(t) == [i \in DOMAIN t[LabelCol].values |-> 1]

\* (df[41] != 'normal.').astype(int), read from the table as loaded
TrueLabel(t) ==
    [i \in DOMAIN t[LabelCol].values |->
        IF t[LabelCol].values[i] # NormalSentinel THEN 1 ELSE 0]

\* the sentinel read with the opposite polarity
IForestPredictionFlipped(labels) == [i \in DOMAIN labels |-> labels[i] = 1]

\* df_encoded['anomaly_iforest'] == -1
IForestPrediction(labels) == [i \in DOMAIN labels |-> labels[i] = -1]

\* numpy reads True as 1 and False as 0
AsInt(b) == IF b THEN 1 ELSE 0

\* classification_report(y_true, y_pred): for each class, the counts its
\* precision, recall, F1 and support are computed from
ClassificationReport(y_true, pred) ==
    [c \in {0, 1} |->
        [tp |-> Cardinality({i \in DOMAIN y_true : y_true[i] = c /\ pred[i] = c}),
         predicted |-> Cardinality({i \in DOMAIN y_true : pred[i] = c}),
         support |-> Cardinality({i \in DOMAIN y_true : y_true[i] = c})]]

(***************************************************************************)
(* The notebook, one action per cell.                                      *)
(***************************************************************************)
IntColumn(vals) == [dtype |-> "int64", values |-> vals]

\* df_encoded[name] = vals
SetColumn(t, name, vals) ==
    [c \in DOMAIN t \cup {name} |-> IF c = name THEN IntColumn(vals) ELSE t[c]]

Init ==
    /\ pc = "load"
    /\ file \in Files
    /\ entropy = 0
    /\ df = Unset
    /\ df_encoded = Unset
    /\ X_scaled = Unset
    /\ input_dim = 0
    /\ fit_input = Unset
    /\ mse = Unset
    /\ threshold = Unset
    /\ report = Unset
    /\ y_pred = Unset
    /\ output = <<>>
    /\ error = NoError
    /\ iforest_runs = <<>>

\* an exception that is caught: the run goes on to the evaluation
Swallow(exc) ==
    /\ error' = exc
    /\ pc' = "evaluate"

\* an uncaught exception ends the run
Raise(exc) ==
    /\ error' = exc
    /\ pc' = "aborted"

\* cell b290fad1: pd.read_csv(...); df.head()
LoadCell ==
    /\ pc = "load"
    /\ IF file.readable
       THEN /\ df' = file.table
            /\ output' = Append(output, "head")
            /\ pc' = "encode"
            /\ UNCHANGED error
       ELSE /\ Raise("FileNotFoundError")
            /\ UNCHANGED <<df, output>>
    /\ UNCHANGED <<file, df_encoded, X_scaled, input_dim, fit_input, mse, threshold,
                   report, y_pred, entropy, iforest_runs>>

\* cell 35517c09: copy, label-encode the object columns, drop column 41, scale
EncodeCell ==
    /\ pc = "encode"
    /\ df_encoded' = EncodeObjectColumns(df)
    /\ IF LabelCol \in DOMAIN df_encoded'
       THEN /\ X_scaled' = FitTransform(DropColumns(df_encoded', {LabelCol}))
            /\ pc' = "iforest"
            /\ UNCHANGED error
       ELSE /\ Raise("KeyError")
            /\ UNCHANGED X_scaled
    /\ UNCHANGED <<file, df, input_dim, fit_input, mse, threshold, report, y_pred,
                   output, entropy, iforest_runs>>

\* cell 0dc31f83: fit_predict, store the labels, show their value_counts
IsolationForestCell ==
    /\ pc = "iforest"
    /\ iforest_runs' = Append(iforest_runs, FitPredict(X_scaled))
    /\ df_encoded' = SetColumn(df_encoded, "anomaly_iforest",
                               iforest_runs'[Len(iforest_runs')])
    /\ output' = Append(output, "iforest_counts")
    /\ pc' = "autoencoder"
    /\ UNCHANGED <<file, df, X_scaled, input_dim, fit_input, mse, threshold, report,
                   y_pred, error, entropy>>

\* the features scaled again from df_encoded as it stands when the cell runs
RescaledInput == FitTransform(DropColumns(df_encoded, {LabelCol}))

\* the matrix cell cc247587 trains and scores on
AutoencoderInput == X_scaled

\* tf.keras.losses.mse(X, autoencoder.predict(X)) once fit has run: predict is a
\* function of the row, so equal rows have equal errors; a NaN loss leaves NaN
\* weights, NaN reconstructions and NaN errors, and raises nothing
ReconstructionErrors(X) ==
    {[i \in DOMAIN X |-> f[X[i]]] : f \in [Range(X) -> 0..MaxErr]}
    \cup {[i \in DOMAIN X |-> NaN]}

\* cell cc247587: import tensorflow, build, fit, predict, threshold, label
AutoencoderCell ==
    /\ pc = "autoencoder"
    /\ \/ /\ Raise("ImportError")
          /\ UNCHANGED <<df_encoded, input_dim, fit_input, mse, threshold, output,
                         entropy>>
       \/ /\ input_dim' = Shape1(AutoencoderInput)
          /\ fit_input' = AutoencoderInput
          /\ entropy' = NextState(entropy)
          /\ mse' \in ReconstructionErrors(AutoencoderInput)
          /\ threshold' = Threshold(mse')
          /\ df_encoded' = SetColumn(df_encoded, "anomaly_autoencoder",
                                     AnomalyAutoencoder(mse', threshold'))
          /\ output' = Append(output, "autoencoder_counts")
          /\ pc' = "evaluate"
          /\ UNCHANGED error
    /\ UNCHANGED <<file, df, X_scaled, report, y_pred, iforest_runs>>

\* cell bb04271d: true_label, then the two reports in sequence
EvaluateCell ==
    /\ pc = "evaluate"
    /\ df_encoded' = SetColumn(df_encoded, "true_label", TrueLabel(df))
    /\ y_pred' = [iforest |-> IForestPrediction(df_encoded["anomaly_iforest"].values),
                  autoencoder |-> df_encoded["anomaly_autoencoder"].values]
    /\ report' =
          [iforest |-> ClassificationReport(TrueLabel(df),
                           [i \in DOMAIN y_pred'.iforest |-> AsInt(y_pred'.iforest[i])]),
           autoencoder |-> ClassificationReport(TrueLabel(df), y_pred'.autoencoder)]
    /\ output' = output \o <<"report_iforest", "report_autoencoder">>
    /\ pc' = "done"
    /\ UNCHANGED <<file, df, X_scaled, input_dim, fit_input, mse, threshold, error,
                   entropy, iforest_runs>>

\* cell 0dc31f83 executed again on the same X_scaled
RerunIsolationForestCell ==
    /\ pc = "done"
    /\ Len(iforest_runs) <= MaxReruns
    /\ iforest_runs' = Append(iforest_runs, FitPredict(X_scaled))
    /\ df_encoded' = SetColumn(df_encoded, "anomaly_iforest",
                               iforest_runs'[Len(iforest_runs')])
    /\ output' = Append(output, "iforest_counts")
    /\ UNCHANGED <<pc, file, df, X_scaled, input_dim, fit_input, mse, threshold,
                   report, y_pred, error, entropy>>

Next ==
    \/ LoadCell
    \/ EncodeCell
    \/ IsolationForestCell
    \/ AutoencoderCell
    \/ EvaluateCell
    \/ RerunIsolationForestCell

Spec == Init /\ [][Next]_vars

(***************************************************************************)
(* The thresholding of cell cc247587 on its own, applied to every sorted   *)
(* error array of up to ScorerRows rows.                                   *)
(***************************************************************************)
RECURSIVE Repeat(_, _)
Repeat(v, k) == IF k = 0 THEN <<>> ELSE <<v>> \o Repeat(v, k - 1)

RECURSIVE FromCounts(_, _)
FromCounts(cnt, v) ==
    IF v > ScorerErr THEN <<>> ELSE Repeat(v, cnt[v]) \o FromCounts(cnt, v + 1)

ErrorArrays ==
    {FromCounts(cnt, 0) : cnt \in {c \in [0..ScorerErr -> 0..ScorerRows] :
                                     SumSeq([v \in 1..(ScorerErr + 1) |-> c[v - 1]])
                                         \in 1..ScorerRows}}
    \cup {Repeat(NaN, n) : n \in 1..ScorerRows}

InitScorer ==
    /\ pc = "score"
    /\ mse \in ErrorArrays
    /\ file = [readable |-> FALSE, table |-> Unset]
    /\ entropy = 0
    /\ df = Unset
    /\ df_encoded = Unset
    /\ X_scaled = Unset
    /\ input_dim = 0
    /\ fit_input = Unset
    /\ threshold = Unset
    /\ report = Unset
    /\ y_pred = Unset
    /\ output = <<>>
    /\ error = NoError
    /\ iforest_runs = <<>>

\* lines 135-136 of cell cc247587 on the drawn array
ScoreErrors ==
    /\ pc = "score"
    /\ threshold' = Threshold(mse)
    /\ df_encoded' = SetColumn(df_encoded, "anomaly_autoencoder",
                               AnomalyAutoencoder(mse, threshold'))
    /\ pc' = "scored"
    /\ UNCHANGED <<file, df, X_scaled, input_dim, fit_input, mse, report, y_pred,
                   output, error, entropy, iforest_runs>>

NextScorer == ScoreErrors

SpecScorer == InitScorer /\ [][NextScorer]_vars

(***************************************************************************)
(* Properties.                                                             *)
(***************************************************************************)
Scored == pc \in {"evaluate", "done"}
AeLabels == df_encoded["anomaly_autoencoder"].values
Flagged == {i \in DOMAIN AeLabels : AeLabels[i] = 1}
SumSquares(errs) == SumSeq([i \in DOMAIN errs |-> errs[i] * errs[i]])

\* error e lies strictly above mean + 3*std of errs, by the sum-of-squares
\* form of the variance: n*e - sum > 3 * sqrt(n * sumsq - sum^2)
AboveThreeSigma(errs, e) ==
    /\ \A j \in DOMAIN errs : errs[j] >= 0
    /\ e >= 0
    /\ Len(errs) * e > SumSeq(errs)
    /\ (Len(errs) * e - SumSeq(errs)) * (Len(errs) * e - SumSeq(errs))
          > 9 * (Len(errs) * SumSquares(errs) - SumSeq(errs) * SumSeq(errs))

\* C1: once the autoencoder cell has run, the threshold is mean + 3*std over all
\* rows of mse, and a row is labelled 1 exactly when its own error is strictly
\* above it; every other row, one lying on the threshold included, is labelled 0.
C1_ThresholdRule ==
    Scored =>
        /\ Len(mse) = NRows(df)
        /\ threshold.nan <=> HasNaN(mse)
        /\ ~threshold.nan =>
              /\ threshold.mean_num = SumSeq(mse) /\ threshold.mean_den = NRows(df)
              /\ threshold.k = 3
              /\ threshold.rad_num * Len(mse) * Len(mse) =
                    threshold.rad_den
                        * (Len(mse) * SumSquares(mse) - SumSeq(mse) * SumSeq(mse))
        /\ DOMAIN AeLabels = DOMAIN mse
        /\ \A i \in DOMAIN mse :
              /\ AeLabels[i] \in {0, 1}
              /\ AeLabels[i] = 1 <=> AboveThreeSigma(mse, mse[i])

C1_Witness ==
    /\ Scored
    /\ Flagged # {}
    /\ \E i \in DOMAIN mse : AeLabels[i] = 0 /\ mse[i] > 0

AllEqual(vals) == \A i, j \in DOMAIN vals : vals[i] = vals[j]
Encoded == pc \notin {"load", "encode"} /\ df # Unset /\ LabelCol \in DOMAIN df
FeaturePos == {p \in DOMAIN FileCols : FileCols[p] # LabelCol}
DegenerateAt(p) == AllEqual(df[FileCols[p]].values)

\* C3 as stated: a zero-variance feature column makes the Encoder/Normalizer fail
\* with DegenerateColumnError, so no matrix is produced and no scorer runs.
C3_DegenerateColumnFails ==
    (Encoded /\ \E p \in FeaturePos : DegenerateAt(p)) =>
        /\ error = "DegenerateColumnError"
        /\ X_scaled = Unset
        /\ iforest_runs = <<>>

\* C3 amended: a zero-variance feature column raises nothing; its scale is taken
\* as 1, the column is all zeros in the matrix, and the Isolation Forest runs on
\* that matrix (the only abort left is the failed tensorflow import).
C3_DegenerateColumnZeroed ==
    \A p \in FeaturePos :
        (Encoded /\ DegenerateAt(p)) =>
            /\ error \in {NoError, "ImportError"}
            /\ Len(X_scaled) = NRows(df)
            /\ \A i \in DOMAIN X_scaled :
                  X_scaled[i][p] = [num |-> 0, den2 |-> NRows(df) * NRows(df)]
            /\ pc # "iforest" => Len(iforest_runs) >= 1

C3_Witness ==
    /\ pc = "done"
    /\ NRows(df) >= 2
    /\ DegenerateAt(2)
    /\ ~DegenerateAt(1)

ResultOutputs ==
    {"iforest_counts", "autoencoder_counts", "report_iforest", "report_autoencoder"}

C5_NaNIsFatal ==
    (mse # Unset /\ HasNaN(mse)) =>
        /\ pc = "aborted"
        /\ "anomaly_autoencoder" \notin DOMAIN df_encoded
        /\ report = Unset

C7_MatrixShape ==
    Encoded =>
        /\ Len(X_scaled) = NRows(file.table)
        /\ \A c \in DOMAIN file.table : df_encoded[c].dtype = "int64"
        /\ \A i \in DOMAIN X_scaled :
              /\ Len(X_scaled[i]) = Cardinality(DOMAIN file.table) - 1
              /\ \A j \in DOMAIN X_scaled[i] :
                    X_scaled[i][j].num \in Int /\ X_scaled[i][j].den2 > 0
              /\ X_scaled[i][1].num =
                    NRows(df) * file.table["0"].values[i] - SumSeq(file.table["0"].values)
              /\ \A k \in DOMAIN X_scaled :
                    (X_scaled[i][2] = X_scaled[k][2])
                        <=> (file.table["1"].values[i] = file.table["1"].values[k])

C7_Witness ==
    /\ pc = "iforest"
    /\ NRows(df) >= 3
    /\ X_scaled[1] # X_scaled[2]
    /\ X_scaled[1][2] # X_scaled[2][2]
    /\ df["1"].dtype = "object"

C10_MatrixFrame ==
    /\ [](/\ pc = "autoencoder" =>
              /\ X_scaled =
                    FitTransform(DropColumns(EncodeObjectColumns(file.table), {"41"}))
              /\ "anomaly_iforest" \in DOMAIN df_encoded
          /\ Scored =>
              /\ fit_input = X_scaled
              /\ input_dim = Cardinality(DOMAIN file.table) - 1
              /\ \A i \in DOMAIN X_scaled : Len(X_scaled[i]) = input_dim
              /\ Len(mse) = Len(X_scaled)
              /\ {"anomaly_iforest", "anomaly_autoencoder"} \subseteq DOMAIN df_encoded
          /\ pc = "done" => "true_label" \in DOMAIN df_encoded)
    /\ [][pc \notin {"load", "encode"} => X_scaled' = X_scaled]_vars

C10_Witness ==
    /\ pc = "done"
    /\ {"anomaly_iforest", "anomaly_autoencoder", "true_label"} \subseteq DOMAIN df_encoded
    /\ \E i \in DOMAIN iforest_runs[1] : iforest_runs[1][i] = -1
    /\ input_dim = 2

====
